---- MODULE Spec2Model ----
(***************************************************************************)
(* Model of the SLEEP header parser (src/src/lib.rs).                      *)
(*                                                                         *)
(* The crate has two operations on headers: Header::from_vec, which parses *)
(* a byte buffer, and Header::to_vec, which is meant to serialise a header.*)
(* Both are pure; the state records the argument of each call and what the *)
(* call returned.  Bytes are naturals 0..255, a Vec<u8> is a sequence of   *)
(* bytes, and Rust's zero-based buffer[i] is At(buffer, i).                *)
(***************************************************************************)
EXTENDS Integers, Sequences, FiniteSets, TLC

VARIABLES
  buffer,   \* the argument of Header::from_vec
  result,   \* what from_vec returned (None before the call)
  indexed,  \* the offsets of buffer that from_vec indexed during the call
  self,     \* the receiver of Header::to_vec (NoHeader before the call)
  out       \* what to_vec returned (None before the call)

vars == <<buffer, result, indexed, self, out>>

-----------------------------------------------------------------------------
(* Bounds of the input space.                                              *)

\* buffer lengths tried: 0 and 32 - MaxLenDelta .. 32 + MaxLenDelta
MaxLenDelta == 1
\* each magic byte is its expected value plus 0 .. MaxMagicDelta
MaxMagicDelta == 1
\* the file-type byte ranges over 0 .. MaxFileTypeByte, and 9
MaxFileTypeByte == 3
\* the version byte ranges over 0 .. MaxVersionByte
MaxVersionByte == 1
\* the last padding byte ranges over 0 .. MaxPadByte
MaxPadByte == 1

-----------------------------------------------------------------------------
(* Types of the crate.                                                     *)

HashAlgorithm == {"BLAKE2b", "Ed25519"}

FileType == {"BitField", "Signatures", "Tree"}

Version == {"V0"}

\* entry_size is a u16; the values tried
EntrySizes == {40, 10240, 65535}

Header ==
  [file_type : FileType, version : Version,
   entry_size : EntrySizes, hash_algorithm : HashAlgorithm]

\* Result<Header, Box<Error>>: the error is an io::Error carrying a message
Ok(h) == [tag |-> "Ok", header |-> h]

Err(msg) == [tag |-> "Err", msg |-> msg]

None == [tag |-> "None"]

NoHeader == [tag |-> "NoHeader"]

\* the unit value (), returned by a function with an empty body
Unit == [kind |-> "unit"]

\* buffer[i] with Rust's zero-based offsets
At(buf, i) == buf[i + 1]

-----------------------------------------------------------------------------
(* Header::from_vec                                                        *)

MsgLength == "buffer should be at least 32 bytes"

MsgFirst == "The first byte of a SLEEP header should be '5' (hex '0x05')"

MsgSecond == "The second byte of a SLEEP header should be '2' (hex '0x02')"

MsgThird == "The third byte of a SLEEP header should be '87' (hex '0x57')"

MsgFileType(num) ==
  "The byte '" \o ToString(num) \o "' does not belong to any known SLEEP file type"

\* mutant: accepts any buffer of at least 32 bytes, as the message words it
len_ok_at_least(buf) == Len(buf) >= 32

\* the condition of the first ensure!
len_ok(buf) == Len(buf) = 32

\* mutant: the third magic byte is not checked
ensure_magic_two_bytes(buf) ==
  IF ~(At(buf, 0) = 5) THEN [bail |-> TRUE, msg |-> MsgFirst, indexed |-> {0}]
  ELSE IF ~(At(buf, 1) = 2) THEN [bail |-> TRUE, msg |-> MsgSecond, indexed |-> {0, 1}]
  ELSE [bail |-> FALSE, indexed |-> {0, 1}]

\* mutant: the second byte is checked before the first
ensure_magic_swapped(buf) ==
  IF ~(At(buf, 1) = 2) THEN [bail |-> TRUE, msg |-> MsgSecond, indexed |-> {1}]
  ELSE IF ~(At(buf, 0) = 5) THEN [bail |-> TRUE, msg |-> MsgFirst, indexed |-> {0, 1}]
  ELSE IF ~(At(buf, 2) = 87) THEN [bail |-> TRUE, msg |-> MsgThird, indexed |-> {0, 1, 2}]
  ELSE [bail |-> FALSE, indexed |-> {0, 1, 2}]

\* the three ensure! on the magic bytes, in order; each bails with its own message
ensure_magic(buf) ==
  IF ~(At(buf, 0) = 5) THEN [bail |-> TRUE, msg |-> MsgFirst, indexed |-> {0}]
  ELSE IF ~(At(buf, 1) = 2) THEN [bail |-> TRUE, msg |-> MsgSecond, indexed |-> {0, 1}]
  ELSE IF ~(At(buf, 2) = 87) THEN [bail |-> TRUE, msg |-> MsgThird, indexed |-> {0, 1, 2}]
  ELSE [bail |-> FALSE, indexed |-> {0, 1, 2}]

\* mutant: the arms for 1 and 2 are exchanged
match_file_type_swapped(num) ==
  CASE num = 0 -> [bail |-> FALSE, file_type |-> "BitField"]
    [] num = 1 -> [bail |-> FALSE, file_type |-> "Tree"]
    [] num = 2 -> [bail |-> FALSE, file_type |-> "Signatures"]
    [] OTHER -> [bail |-> TRUE, msg |-> MsgFileType(num)]

\* mutant: an extra arm accepts 3
match_file_type_lenient(num) ==
  CASE num = 0 -> [bail |-> FALSE, file_type |-> "BitField"]
    [] num = 1 -> [bail |-> FALSE, file_type |-> "Signatures"]
    [] num = 2 -> [bail |-> FALSE, file_type |-> "Tree"]
    [] num = 3 -> [bail |-> FALSE, file_type |-> "Tree"]
    [] OTHER -> [bail |-> TRUE, msg |-> MsgFileType(num)]

\* match buffer[3] { 0 => .., 1 => .., 2 => .., num => bail!(..) }
match_file_type(num) ==
  CASE num = 0 -> [bail |-> FALSE, file_type |-> "BitField"]
    [] num = 1 -> [bail |-> FALSE, file_type |-> "Signatures"]
    [] num = 2 -> [bail |-> FALSE, file_type |-> "Tree"]
    [] OTHER -> [bail |-> TRUE, msg |-> MsgFileType(num)]

\* The whole function: its result and the offsets it indexed on the way.
\* Bytes 4 .. 31 are never read: version, entry_size and hash_algorithm of
\* the returned header are the literals V0, 40 and BLAKE2b.
from_vec(buf) ==
  IF ~len_ok(buf) THEN [result |-> Err(MsgLength), indexed |-> {}]
  ELSE LET magic == ensure_magic(buf) IN
    IF magic.bail THEN [result |-> Err(magic.msg), indexed |-> magic.indexed]
    ELSE LET file_type == match_file_type(At(buf, 3)) IN
      IF file_type.bail
      THEN [result |-> Err(file_type.msg), indexed |-> magic.indexed \cup {3}]
      ELSE [result |-> Ok([version |-> "V0",
                           entry_size |-> 40,
                           file_type |-> file_type.file_type,
                           hash_algorithm |-> "BLAKE2b"]),
            indexed |-> magic.indexed \cup {3}]

-----------------------------------------------------------------------------
(* Header::to_vec                                                          *)

\* pub fn to_vec(&self) {} : the body is empty and the return type is ()
to_vec(h) == Unit

-----------------------------------------------------------------------------
(* Input buffers, laid out as the crate documentation describes a header.  *)

\* the algorithm names as ASCII bytes
NameBLAKE2b == <<66, 76, 65, 75, 69, 50, 98>>

NameEd25519 == <<69, 100, 50, 53, 53, 49, 57>>

NameSHA256 == <<83, 72, 65, 50, 53, 54>>

Names == {NameBLAKE2b, NameEd25519, NameSHA256}

\* magic, file type, version, big-endian entry size, length-prefixed name,
\* then zeroes up to 32 bytes, the last of which is pad
Layout(b0, b1, b2, ft, ver, es, name, pad) ==
  <<b0, b1, b2, ft, ver, es \div 256, es % 256, Len(name)>> \o name
    \o [i \in 1..(24 - Len(name)) |-> IF i = 24 - Len(name) THEN pad ELSE 0]

\* buf cut or zero-extended to n bytes
Resize(buf, n) == [i \in 1..n |-> IF i <= Len(buf) THEN buf[i] ELSE 0]

Zeroes(n) == [i \in 1..n |-> 0]

\* 05 02 57 02 00 28 07 "BLAKE2b" and 17 zero bytes: 31 bytes
ScenarioBuffer == <<5, 2, 87, 2, 0, 40, 7>> \o NameBLAKE2b \o Zeroes(17)

\* the header of the crate documentation, entry size on two bytes: 32 bytes
DocBuffer == <<5, 2, 87, 2, 0, 0, 40, 7>> \o NameBLAKE2b \o Zeroes(17)

Lengths == {0} \cup ((32 - MaxLenDelta)..(32 + MaxLenDelta))

FileTypeBytes == (0..MaxFileTypeByte) \cup {9}

Buffers ==
  {ScenarioBuffer, DocBuffer} \cup
  { Resize(Layout(5 + d0, 2 + d1, 87 + d2, ft, ver, es, name, pad), n) :
      d0 \in 0..MaxMagicDelta, d1 \in 0..MaxMagicDelta, d2 \in 0..MaxMagicDelta,
      ft \in FileTypeBytes, ver \in 0..MaxVersionByte, es \in {40, 10240},
      name \in Names, pad \in 0..MaxPadByte, n \in Lengths }

-----------------------------------------------------------------------------
(* The state machine: one call of each function.                           *)

Init ==
  /\ buffer \in Buffers
  /\ result = None
  /\ indexed = {}
  /\ self = NoHeader
  /\ out = None

FromVec ==
  /\ result = None
  /\ result' = from_vec(buffer).result
  /\ indexed' = from_vec(buffer).indexed
  /\ UNCHANGED <<buffer, self, out>>

ToVec ==
  /\ out = None
  /\ \E h \in Header :
       /\ self' = h
       /\ out' = to_vec(h)
  /\ UNCHANGED <<buffer, result, indexed>>

Next == FromVec \/ ToVec

Spec == Init /\ [][Next]_vars

-----------------------------------------------------------------------------
(* Vocabulary of the properties.                                           *)

Parsed == result # None

Serialized == self # NoHeader

B(i) == At(buffer, i)

MagicOk == Len(buffer) = 32 /\ B(0) = 5 /\ B(1) = 2 /\ B(2) = 87

BadMagicMsgs == {MsgFirst, MsgSecond, MsgThird}

FileTypeOfByte(b) ==
  CASE b = 0 -> "BitField" [] b = 1 -> "Signatures" [] b = 2 -> "Tree" [] OTHER -> "none"

\* the length-prefixed name stored at offset 7 of a 32-byte buffer
NameFits == B(7) <= 24

NameOf == SubSeq(buffer, 9, 8 + B(7))

PaddingZero == \A i \in (8 + B(7))..31 : B(i) = 0

TreeHeader ==
  [file_type |-> "Tree", version |-> "V0", entry_size |-> 40, hash_algorithm |-> "BLAKE2b"]

-----------------------------------------------------------------------------
(* C1 *)

\* C1, as stated: parsing 05 02 57 02 00 28 07 "BLAKE2b" followed by 17 zero
\* bytes succeeds with Header{Tree, 40, BLAKE2b, V0}.  Those are 31 bytes.
C1_ScenarioAsStated ==
  (Parsed /\ buffer = ScenarioBuffer) => result = Ok(TreeHeader)

\* C1, amended: parsing the 32 bytes 05 02 57 02 00 00 28 07 "BLAKE2b" followed
\* by 17 zero bytes (entry size on two bytes) succeeds with
\* Header{file_type: Tree, entry_size: 40, hash_algorithm: BLAKE2b, version: V0}.
C1_Scenario ==
  (Parsed /\ buffer = DocBuffer) => result = Ok(TreeHeader)

C1_Witness ==
  Parsed /\ buffer = DocBuffer /\ Len(buffer) = 32 /\ result.tag = "Ok"

-----------------------------------------------------------------------------
(* C2 *)

\* C2: for every valid header h, to_vec produces a 32-byte buffer and
\* from_vec of that buffer returns a header equal to h.
C2_RoundTrip ==
  Serialized =>
    /\ out.kind = "vec"
    /\ Len(out.bytes) = 32
    /\ from_vec(out.bytes).result = Ok(self)

-----------------------------------------------------------------------------
(* C3 *)

-----------------------------------------------------------------------------
(* C4 *)

\* C4: for every 32-byte buffer whose bytes 0..2 differ from 05 02 57 in any
\* position from_vec returns a bad-magic error; in particular whenever byte 0
\* is not 0x05, whatever the other bytes are.
C4_BadMagic ==
  (Parsed /\ Len(buffer) = 32) =>
    /\ <<B(0), B(1), B(2)>> # <<5, 2, 87>> =>
         result.tag = "Err" /\ result.msg \in BadMagicMsgs
    /\ B(0) # 5 => result = Err(MsgFirst)

C4_Witness ==
  /\ Parsed /\ Len(buffer) = 32
  /\ B(0) = 5 /\ B(1) = 2 /\ B(2) # 87 /\ B(3) \in 0..2
  /\ result = Err(MsgThird)

-----------------------------------------------------------------------------
(* C5 *)

\* C5, as stated: a 32-byte buffer whose byte 3 is 9 always yields the
\* unknown-file-type error; from_vec fails with that error if byte 3 is not in
\* {0,1,2}; on success file_type is BitField, Signatures, Tree for 0, 1, 2.
C5_FileTypeAsStated ==
  (Parsed /\ Len(buffer) = 32) =>
    /\ B(3) = 9 => result = Err(MsgFileType(9))
    /\ B(3) \notin {0, 1, 2} => result = Err(MsgFileType(B(3)))
    /\ result.tag = "Ok" => result.header.file_type = FileTypeOfByte(B(3))

\* C5, amended: a 32-byte buffer that starts with the magic 05 02 57 yields the
\* unknown-file-type error if and only if byte 3 is not in {0,1,2} (so always
\* for byte 3 = 9); whenever from_vec succeeds the file_type is BitField for
\* byte 3 = 0, Signatures for 1 and Tree for 2.
C5_FileType ==
  /\ (Parsed /\ MagicOk) =>
       /\ B(3) = 9 => result = Err(MsgFileType(9))
       /\ B(3) \notin {0, 1, 2} <=> result = Err(MsgFileType(B(3)))
  /\ (Parsed /\ result.tag = "Ok") =>
       /\ B(3) \in {0, 1, 2}
       /\ result.header.file_type = FileTypeOfByte(B(3))

C5_Witness ==
  Parsed /\ MagicOk /\ B(3) = 9 /\ result = Err(MsgFileType(9))

-----------------------------------------------------------------------------
(* C6 *)

\* C6: with valid magic and file type, from_vec returns an error whenever the
\* version byte (offset 4) is not 0, and returns V0 only when that byte is 0.
C6_Version ==
  (Parsed /\ MagicOk /\ B(3) \in {0, 1, 2}) =>
    /\ B(4) # 0 => result.tag = "Err"
    /\ (result.tag = "Ok" /\ result.header.version = "V0") => B(4) = 0

-----------------------------------------------------------------------------
(* C7 *)

\* C7: for every accepted buffer the returned entry_size is the big-endian
\* u16 at offsets 5 and 6, byte5 * 256 + byte6.
C7_EntrySize ==
  (Parsed /\ result.tag = "Ok") =>
    result.header.entry_size = B(5) * 256 + B(6)

-----------------------------------------------------------------------------
(* C8 *)

\* C8: the length-prefixed name at offset 7 decides hash_algorithm: "BLAKE2b"
\* gives BLAKE2b, "Ed25519" gives Ed25519, any other name is an error.
C8_Algorithm ==
  (Parsed /\ MagicOk /\ B(3) \in {0, 1, 2} /\ NameFits) =>
    /\ (result.tag = "Ok" /\ NameOf = NameBLAKE2b) =>
         result.header.hash_algorithm = "BLAKE2b"
    /\ (result.tag = "Ok" /\ NameOf = NameEd25519) =>
         result.header.hash_algorithm = "Ed25519"
    /\ NameOf \notin {NameBLAKE2b, NameEd25519} => result.tag = "Err"

-----------------------------------------------------------------------------
(* C9 *)

\* C9: a 32-byte header is accepted only if every byte after the algorithm
\* name, up to offset 32, is zero.
C9_Padding ==
  (Parsed /\ Len(buffer) = 32 /\ result.tag = "Ok" /\ NameFits) => PaddingZero

-----------------------------------------------------------------------------
(* C10 *)

\* C10: the checks run in the order length, byte 0, byte 1, byte 2, byte 3 and
\* the first failing one decides the error; each magic byte has its own error
\* and the file-type error carries the offending value; no byte is indexed
\* unless the length check has passed, nor after the check that failed.
C10_CheckOrder ==
  Parsed =>
    /\ Len(buffer) # 32 => result = Err(MsgLength) /\ indexed = {}
    /\ indexed # {} => Len(buffer) = 32
    /\ Len(buffer) = 32 =>
         /\ B(0) # 5 => result = Err(MsgFirst) /\ indexed = {0}
         /\ (B(0) = 5 /\ B(1) # 2) => result = Err(MsgSecond) /\ indexed = {0, 1}
         /\ (B(0) = 5 /\ B(1) = 2 /\ B(2) # 87) =>
              result = Err(MsgThird) /\ indexed = {0, 1, 2}
         /\ (MagicOk /\ B(3) \notin {0, 1, 2}) =>
              /\ result = Err(MsgFileType(B(3)))
              /\ indexed = {0, 1, 2, 3}
              /\ \A n \in FileTypeBytes \ {B(3)} : result.msg # MsgFileType(n)
              /\ result.msg \notin {MsgLength, MsgFirst, MsgSecond, MsgThird}
    /\ Cardinality({MsgLength, MsgFirst, MsgSecond, MsgThird}) = 4

C10_Witness ==
  /\ Parsed /\ Len(buffer) = 32
  /\ B(0) # 5 /\ B(1) # 2 /\ B(2) # 87 /\ B(3) = 9
  /\ result = Err(MsgFirst) /\ indexed = {0}

====
